---- MODULE Spec2Model ----
(***************************************************************************)
(* Model of the symbolic::Pddl facade (src/src/pddl.cc): state/action/goal *)
(* queries over a loaded domain and problem.                               *)
(*                                                                         *)
(* Texts (proposition and action-call strings) are token sequences:        *)
(*   "swap(a, t)"  is  <<"swap", "(", "a", ",", "t", ")">>                  *)
(* A Proposition is a record [name, args]; a State is a set of them.       *)
(***************************************************************************)
EXTENDS Naturals, Integers, Sequences, FiniteSets, TLC

\* Longest action skeleton handed to IsValidPlan.
MaxPlanLen == 2

(***************************************************************************)
(* The loaded tree: VAL::domain and VAL::problem of one small domain.      *)
(***************************************************************************)

\* domain.types: each type with its parent ("" for the root).
domain_types ==
  [object |-> "", block |-> "object", table |-> "object", ghost |-> "object"]

\* domain.constants and problem.objects, each symbol with its declared type.
domain_constants == << [name |-> "t", type |-> "table"] >>

problem_objects == << [name |-> "a", type |-> "block"] >>

\* Object::type().ListTypes(): the declared type and all its ancestors.
RECURSIVE ListTypes(_)
ListTypes(type) ==
  IF type = "" THEN <<>> ELSE <<type>> \o ListTypes(domain_types[type])

\* Goal-expression and effect-list constructors (VAL::goal / VAL::effect_lists).
GProp(name, args) == [kind |-> "prop", name |-> name, args |-> args]

GAnd(goals) == [kind |-> "and", goals |-> goals]

GOr(goals) == [kind |-> "or", goals |-> goals]

GNot(goal) == [kind |-> "not", goal |-> goal]

GForAll(vars, goal) == [kind |-> "forall", vars |-> vars, goal |-> goal]

GExists(vars, goal) == [kind |-> "exists", vars |-> vars, goal |-> goal]

Param(name, types) == [name |-> name, types |-> types]

Effects(add, del, forall, cond) ==
  [add |-> add, del |-> del, forall |-> forall, cond |-> cond]

\* domain.ops: the actions, in declaration order.
domain_ops == <<
  [name |-> "pick_up",
   parameters |-> << Param("?b", <<"block">>) >>,
   precondition |->
     GAnd(<< GProp("on_table", <<"?b">>),
             GForAll(<< Param("?g", <<"ghost">>) >>, GProp("held", <<"?g">>)),
             GNot(GExists(<< Param("?g", <<"ghost">>) >>,
                          GProp("on_table", <<"?g">>))) >>),
   effects |-> Effects(<< GProp("held", <<"?b">>) >>,
                       << GProp("on_table", <<"?b">>) >>, <<>>, <<>>)],
  [name |-> "put_down",
   parameters |-> << Param("?x", <<"block", "object">>) >>,
   precondition |-> GProp("held", <<"?x">>),
   effects |-> Effects(<< GProp("on_table", <<"?x">>) >>,
                       << GProp("held", <<"?x">>) >>, <<>>, <<>>)],
  [name |-> "swap",
   parameters |-> << Param("?x", <<"block">>), Param("?y", <<"object">>) >>,
   precondition |-> GAnd(<< GProp("held", <<"?x">>),
                            GProp("on_table", <<"?y">>) >>),
   effects |-> Effects(<< GProp("held", <<"?y">>), GProp("on_table", <<"?x">>) >>,
                       << GProp("held", <<"?x">>), GProp("on_table", <<"?y">>) >>,
                       <<>>, <<>>)],
  [name |-> "drop_all",
   parameters |-> <<>>,
   precondition |-> GAnd(<<>>),
   effects |->
     Effects(<<>>, <<>>,
             << [vars |-> << Param("?o", <<"object">>) >>,
                 effects |->
                   Effects(<<>>, <<>>, <<>>,
                           << [cond |-> GProp("held", <<"?o">>),
                               effects |->
                                 Effects(<< GProp("on_table", <<"?o">>) >>,
                                         << GProp("held", <<"?o">>) >>,
                                         <<>>, <<>>)] >>)] >>,
             <<>>)],
  [name |-> "forget",
   parameters |-> << Param("?x", <<"object">>) >>,
   precondition |-> GProp("busy", <<"?x">>),
   effects |-> Effects(<<>>, << GProp("busy", <<"?x">>) >>, <<>>, <<>>)],
  [name |-> "toggle",
   parameters |-> << Param("?x", <<"object">>) >>,
   precondition |-> GAnd(<<>>),
   effects |->
     Effects(<<>>, <<>>, <<>>,
             << [cond |-> GProp("held", <<"?x">>),
                 effects |-> Effects(<< GProp("on_table", <<"?x">>) >>,
                                     << GProp("held", <<"?x">>) >>, <<>>, <<>>)],
                [cond |-> GNot(GProp("held", <<"?x">>)),
                 effects |-> Effects(<< GProp("held", <<"?x">>) >>,
                                     << GProp("on_table", <<"?x">>) >>,
                                     <<>>, <<>>)] >>)]
>>

\* domain.drvs: the derivation rules, in declaration order.  The first one
\* depends on the head of the second.
domain_drvs == <<
  [name |-> "any_busy",
   parameters |-> <<>>,
   body |-> GExists(<< Param("?o", <<"object">>) >>, GProp("busy", <<"?o">>))],
  [name |-> "busy",
   parameters |-> << Param("?x", <<"object">>) >>,
   body |-> GProp("held", <<"?x">>)]
>>

\* domain.predicates: declared arity of every predicate.
domain_predicates == [on_table |-> 1, held |-> 1, busy |-> 1, any_busy |-> 0]

\* problem.initial_state->add_effects: ground add-effects.
problem_initial_state ==
  << GProp("on_table", <<"a">>), GProp("held", <<"t">>) >>

\* problem.the_goal
problem_the_goal ==
  GAnd(<< GProp("any_busy", <<>>), GNot(GProp("held", <<"a">>)),
          GForAll(<< Param("?g", <<"ghost">>) >>, GProp("held", <<"?g">>)),
          GNot(GExists(<< Param("?g", <<"ghost">>) >>,
                       GProp("busy", <<"?g">>))) >>)


(***************************************************************************)
(* Sequence helpers.                                                       *)
(***************************************************************************)
Range(seq) == {seq[i] : i \in DOMAIN seq}

RECURSIVE Flatten(_)
Flatten(seqs) == IF seqs = <<>> THEN <<>> ELSE Head(seqs) \o Flatten(Tail(seqs))

(***************************************************************************)
(* Object registry and type index.                                         *)
(***************************************************************************)

\* Object::CreateList: one Object per symbol, carrying every type it satisfies.
CreateList(symbols) ==
  [i \in DOMAIN symbols |->
     [name |-> symbols[i].name, types |-> ListTypes(symbols[i].type)]]

\* Constants first, then the problem's objects.
GetObjects == CreateList(domain_constants) \o CreateList(problem_objects)

\* Mutant: every declared type lists every object.
CreateObjectTypeMapAllTypes(objects) ==
  [type \in DOMAIN domain_types |-> objects]

\* object_map[type] lists, in object order, the objects carrying the type; a
\* type without objects gets no entry.
CreateObjectTypeMap(objects) ==
  LET keys == UNION {Range(objects[i].types) : i \in DOMAIN objects}
  IN  [type \in keys |->
         SelectSeq(objects, LAMBDA object : type \in Range(object.types))]

objects_ == GetObjects

object_map_ == CreateObjectTypeMap(objects_)

ObjectNames == {objects_[i].name : i \in DOMAIN objects_}

(***************************************************************************)
(* Parameter generator: the Cartesian product, in parameter order, of the  *)
(* union of the objects of each parameter's allowed types; tuples binding  *)
(* one object to several parameters are kept.                              *)
(***************************************************************************)

\* seq without the later occurrences of an element.
Distinct(seq) ==
  Flatten([i \in DOMAIN seq |->
             IF \E j \in 1..(i - 1) : seq[j] = seq[i] THEN <<>> ELSE <<seq[i]>>])

ObjectsOfType(object_map, type) ==
  IF type \in DOMAIN object_map
    THEN [i \in DOMAIN object_map[type] |-> object_map[type][i].name]
    ELSE <<>>

ParamObjects(object_map, param) ==
  Distinct(Flatten([i \in DOMAIN param.types |->
                      ObjectsOfType(object_map, param.types[i])]))

RECURSIVE ParameterGenerator(_, _)
ParameterGenerator(object_map, params) ==
  IF params = <<>> THEN << <<>> >>
  ELSE LET firsts == ParamObjects(object_map, Head(params))
           rests  == ParameterGenerator(object_map, Tail(params))
       IN  Flatten([i \in DOMAIN firsts |->
                      [j \in DOMAIN rests |-> <<firsts[i]>> \o rests[j]]])

(***************************************************************************)
(* Goal evaluator.                                                         *)
(***************************************************************************)

\* Positional binding of arguments to parameters.
Bind(params, args) ==
  [v \in {params[i].name : i \in DOMAIN params} |->
     args[CHOOSE i \in DOMAIN params : params[i].name = v]]

\* A proposition pattern with its variables replaced by their bound objects.
Ground(pattern, bind) ==
  [name |-> pattern.name,
   args |-> [i \in DOMAIN pattern.args |->
               IF pattern.args[i] \in DOMAIN bind
                 THEN bind[pattern.args[i]] ELSE pattern.args[i]]]

RECURSIVE Eval(_, _, _)
Eval(goal, state, bind) ==
  CASE goal.kind = "prop" -> Ground(goal, bind) \in state
    [] goal.kind = "and" ->
         \A i \in DOMAIN goal.goals : Eval(goal.goals[i], state, bind)
    [] goal.kind = "or" ->
         \E i \in DOMAIN goal.goals : Eval(goal.goals[i], state, bind)
    [] goal.kind = "not" -> ~Eval(goal.goal, state, bind)
    [] goal.kind = "forall" ->
         LET tuples == ParameterGenerator(object_map_, goal.vars)
         IN  \A i \in DOMAIN tuples :
               Eval(goal.goal, state, Bind(goal.vars, tuples[i]) @@ bind)
    [] goal.kind = "exists" ->
         LET tuples == ParameterGenerator(object_map_, goal.vars)
         IN  \E i \in DOMAIN tuples :
               Eval(goal.goal, state, Bind(goal.vars, tuples[i]) @@ bind)

(***************************************************************************)
(* Actions: validity and effect application.                               *)
(***************************************************************************)
actions_ == domain_ops

\* Action::IsValid(state, arguments)
ActionIsValid(state, action, arguments) ==
  Eval(action.precondition, state, Bind(action.parameters, arguments))

\* Effects are applied to the working copy `work`; every condition reads the
\* pre-transition state `pre`.
RECURSIVE ApplyEffects(_, _, _, _)
RECURSIVE ApplyForall(_, _, _, _, _)
RECURSIVE ApplyCond(_, _, _, _, _)
RECURSIVE ApplyBindings(_, _, _, _, _, _)
ApplyEffects(effects, bind, pre, work) ==
  LET adds == {Ground(effects.add[i], bind) : i \in DOMAIN effects.add}
      dels == {Ground(effects.del[i], bind) : i \in DOMAIN effects.del}
      w1 == (work \cup adds) \ dels
      w2 == ApplyForall(effects.forall, 1, bind, pre, w1)
  IN  ApplyCond(effects.cond, 1, bind, pre, w2)

ApplyForall(foralls, i, bind, pre, work) ==
  IF i > Len(foralls) THEN work
  ELSE ApplyForall(foralls, i + 1, bind, pre,
         ApplyBindings(foralls[i],
                       ParameterGenerator(object_map_, foralls[i].vars),
                       1, bind, pre, work))

ApplyBindings(forall, tuples, j, bind, pre, work) ==
  IF j > Len(tuples) THEN work
  ELSE ApplyBindings(forall, tuples, j + 1, bind, pre,
         ApplyEffects(forall.effects, Bind(forall.vars, tuples[j]) @@ bind,
                      pre, work))

\* Mutant: a condition reads the working copy, that is, it sees what the
\* effects processed before it have added and deleted.
ApplyCondOnWork(conds, i, bind, pre, work) ==
  IF i > Len(conds) THEN work
  ELSE ApplyCond(conds, i + 1, bind, pre,
         IF Eval(conds[i].cond, work, bind)
           THEN ApplyEffects(conds[i].effects, bind, pre, work)
           ELSE work)

ApplyCond(conds, i, bind, pre, work) ==
  IF i > Len(conds) THEN work
  ELSE ApplyCond(conds, i + 1, bind, pre,
         IF Eval(conds[i].cond, pre, bind)
           THEN ApplyEffects(conds[i].effects, bind, pre, work)
           ELSE work)

\* What an in-place form leaves and returns: the new State and `changed`.
Changed(state, next) == [state |-> next, is_changed |-> next # state]

\* Action::Apply(state, arguments): the pure form, returns the new State.
ActionApply(state, action, arguments) ==
  ApplyEffects(action.effects, Bind(action.parameters, arguments), state, state)

\* Action::Apply(arguments, &state): the in-place form, returns `changed`.
ActionApplyInPlace(action, arguments, state) ==
  Changed(state, ApplyEffects(action.effects, Bind(action.parameters, arguments),
                              state, state))


(***************************************************************************)
(* Derived-predicate closure.                                              *)
(***************************************************************************)
derived_predicates_ == domain_drvs

\* One pass: every derived predicate in order, every binding of its
\* parameters; a body true in the current state adds the head.
RECURSIVE DerivedPass(_, _, _, _)
DerivedPass(predicates, i, j, state) ==
  IF i > Len(predicates) THEN state
  ELSE LET tuples == ParameterGenerator(object_map_, predicates[i].parameters)
       IN  IF j > Len(tuples) THEN DerivedPass(predicates, i + 1, 1, state)
           ELSE LET bind == Bind(predicates[i].parameters, tuples[j])
                    head == [name |-> predicates[i].name, args |-> tuples[j]]
                IN  DerivedPass(predicates, i, j + 1,
                      IF Eval(predicates[i].body, state, bind)
                        THEN state \cup {head} ELSE state)

\* Mutant: one pass over the rules, without repeating it.
DerivedLoopSinglePass(predicates, state, passes) ==
  [state |-> DerivedPass(predicates, 1, 1, state), passes |-> passes + 1]

\* The passes are repeated until one adds nothing; `passes` counts them.
RECURSIVE DerivedLoop(_, _, _)
RECURSIVE DerivedRepeat(_, _, _, _)
DerivedLoop(predicates, state, passes) ==
  DerivedRepeat(predicates, state, DerivedPass(predicates, 1, 1, state), passes)

\* `next` is the state after the pass just made on `state`.
DerivedRepeat(predicates, state, next, passes) ==
  IF next = state THEN [state |-> state, passes |-> passes + 1]
  ELSE DerivedLoop(predicates, next, passes + 1)

\* DerivedPredicate::Apply(predicates, &state): returns `changed`.
DerivedPredicateApply(predicates, state) ==
  Changed(state, DerivedLoop(predicates, state, 0).state)

(***************************************************************************)
(* Text forms.                                                             *)
(***************************************************************************)
RECURSIVE JoinArgs(_)
JoinArgs(args) ==
  IF Len(args) = 0 THEN <<>>
  ELSE IF Len(args) = 1 THEN <<args[1]>>
  ELSE <<args[1], ",">> \o JoinArgs(Tail(args))

\* Proposition::to_string / Action::to_string: name(arg1, arg2, ...)
to_string(name, args) == <<name, "(">> \o JoinArgs(args) \o <<")">>

\* The name and the argument tokens of a text name(arg1, arg2, ...).
TextName(text) == text[1]

TextArgs(text) == [k \in 1..((Len(text) - 2) \div 2) |-> text[2 * k + 1]]

\* Proposition(pddl, str_prop): every argument token must name an object.
ParseProposition(str_prop) ==
  IF \A k \in DOMAIN TextArgs(str_prop) : TextArgs(str_prop)[k] \in ObjectNames
    THEN [error |-> "none",
          prop |-> [name |-> TextName(str_prop), args |-> TextArgs(str_prop)]]
    ELSE [error |-> "UnknownObject", prop |-> <<>>]

\* Action::Parse(pddl, action_call): the action and its bound arguments.
ActionParse(action_call) ==
  LET name == TextName(action_call)
      args == TextArgs(action_call)
      found == {i \in DOMAIN actions_ : actions_[i].name = name}
  IN  IF found = {}
        THEN [error |-> "UnknownAction", action |-> <<>>, arguments |-> <<>>]
      ELSE IF \E k \in DOMAIN args : args[k] \notin ObjectNames
        THEN [error |-> "UnknownObject", action |-> <<>>, arguments |-> <<>>]
      ELSE LET action == actions_[CHOOSE i \in found : TRUE]
           IN  IF Len(args) # Len(action.parameters)
                 THEN [error |-> "ArityMismatch", action |-> <<>>,
                       arguments |-> <<>>]
                 ELSE [error |-> "none", action |-> action, arguments |-> args]


(***************************************************************************)
(* The facade (symbolic::Pddl) and the helpers of pddl.cc.                 *)
(***************************************************************************)

\* ParseState(pddl, str_state): one Proposition per string; a string that
\* does not parse makes the whole call throw.
ParseState(str_state) ==
  IF \E str_prop \in str_state : ParseProposition(str_prop).error # "none"
    THEN [error |-> "UnknownObject", state |-> {}]
    ELSE [error |-> "none",
          state |-> {ParseProposition(str_prop).prop : str_prop \in str_state}]

\* Mutant: the propositions are written by name only, as the actions are.
StringifyNames(state) == {<<prop.name>> : prop \in state}

\* Stringify(state): the set of the propositions' strings.
Stringify(state) == {to_string(prop.name, prop.args) : prop \in state}

\* Mutant: the derived predicates are closed on the initial state.
GetInitialStateClosed ==
  DerivedPredicateApply(derived_predicates_,
    {[name |-> problem_initial_state[i].name,
      args |-> problem_initial_state[i].args]
       : i \in DOMAIN problem_initial_state}).state

\* GetInitialState(domain, problem): the problem's ground add-effects.
GetInitialState ==
  {[name |-> problem_initial_state[i].name,
    args |-> problem_initial_state[i].args] : i \in DOMAIN problem_initial_state}

\* goal_(state)
goal_(state) == Eval(problem_the_goal, state, <<>>)

\* Mutant: the derived predicates are applied to the input state and the
\* result of that is returned.
ApplyClosesInput(state, action, arguments, predicates) ==
  DerivedPredicateApply(predicates, state).state

\* Mutant: the derived predicates are not applied to the new state.
ApplyWithoutClosure(state, action, arguments, predicates) ==
  ActionApply(state, action, arguments)

\* Apply(state, action, arguments, predicates): pure form.
Apply(state, action, arguments, predicates) ==
  LET next_state == ActionApply(state, action, arguments)
  IN  DerivedPredicateApply(predicates, next_state).state

\* The second statement of the in-place form: the closure runs on the State
\* the action left, and the two flags are or-ed.
ApplyDerivedInPlace(predicates, applied) ==
  LET derived == DerivedPredicateApply(predicates, applied.state)
  IN  [state |-> derived.state,
       is_changed |-> applied.is_changed \/ derived.is_changed]

\* Mutant: the flag of the closure overwrites the flag of the action.
ApplyInPlaceLastFlag(action, arguments, predicates, state) ==
  LET applied == ActionApplyInPlace(action, arguments, state)
      derived == DerivedPredicateApply(predicates, applied.state)
  IN  [state |-> derived.state, is_changed |-> derived.is_changed]

\* Mutant: the derived predicates are not applied to the state.
ApplyInPlaceWithoutClosure(action, arguments, predicates, state) ==
  ActionApplyInPlace(action, arguments, state)

\* Apply(action, arguments, predicates, &state): in-place form.
ApplyInPlace(action, arguments, predicates, state) ==
  ApplyDerivedInPlace(predicates, ActionApplyInPlace(action, arguments, state))

\* Mutant: a call that does not parse returns the state as it was given.
NextStateLenient(state, action_call) ==
  LET action_args == ActionParse(action_call)
  IN  IF action_args.error # "none"
        THEN [error |-> "none", state |-> state]
        ELSE [error |-> "none",
              state |-> Apply(state, action_args.action, action_args.arguments,
                              derived_predicates_)]

\* Mutant: an action whose precondition is false leaves the state alone.
NextStateGuarded(state, action_call) ==
  LET action_args == ActionParse(action_call)
  IN  IF action_args.error # "none"
        THEN [error |-> action_args.error, state |-> {}]
      ELSE IF ~ActionIsValid(state, action_args.action, action_args.arguments)
        THEN [error |-> "none", state |-> state]
      ELSE [error |-> "none",
            state |-> Apply(state, action_args.action, action_args.arguments,
                            derived_predicates_)]

\* Mutant: the action is applied to the facade's initial state.
NextStateFromInitial(state, action_call) ==
  LET action_args == ActionParse(action_call)
  IN  IF action_args.error # "none"
        THEN [error |-> action_args.error, state |-> {}]
        ELSE [error |-> "none",
              state |-> Apply(GetInitialState, action_args.action,
                              action_args.arguments, derived_predicates_)]

\* Pddl::NextState(const State&, action_call)
NextState(state, action_call) ==
  LET action_args == ActionParse(action_call)
  IN  IF action_args.error # "none"
        THEN [error |-> action_args.error, state |-> {}]
        ELSE [error |-> "none",
              state |-> Apply(state, action_args.action, action_args.arguments,
                              derived_predicates_)]

\* return Stringify(state); after the in-place Apply.
StringifyApplied(applied) ==
  [error |-> "none", str |-> Stringify(applied.state),
   local |-> applied.state, is_changed |-> applied.is_changed]

\* Pddl::NextState(const std::set<std::string>&, action_call); `local` is the
\* handler's own State after the in-place Apply, `is_changed` its flag.
NextStateStr(str_state, action_call) ==
  LET parsed == ParseState(str_state)
      action_args == ActionParse(action_call)
  IN  IF parsed.error # "none"
        THEN [error |-> parsed.error, str |-> {}, local |-> {},
              is_changed |-> FALSE]
      ELSE IF action_args.error # "none"
        THEN [error |-> action_args.error, str |-> {}, local |-> parsed.state,
              is_changed |-> FALSE]
      ELSE StringifyApplied(ApplyInPlace(action_args.action,
                                         action_args.arguments,
                                         derived_predicates_, parsed.state))

\* Pddl::IsValidAction(const State&, action_call)
IsValidAction(state, action_call) ==
  LET action_args == ActionParse(action_call)
  IN  IF action_args.error # "none"
        THEN [error |-> action_args.error, value |-> FALSE]
        ELSE [error |-> "none",
              value |-> ActionIsValid(state, action_args.action,
                                      action_args.arguments)]

\* Mutant: only the successor is compared, the precondition is not checked.
IsValidTupleUnchecked(state, action_call, next_state) ==
  LET action_args == ActionParse(action_call)
  IN  IF action_args.error # "none"
        THEN [error |-> action_args.error, value |-> FALSE]
        ELSE [error |-> "none",
              value |-> Apply(state, action_args.action, action_args.arguments,
                              derived_predicates_) = next_state]

\* Pddl::IsValidTuple(const State&, action_call, const State&)
IsValidTuple(state, action_call, next_state) ==
  LET action_args == ActionParse(action_call)
  IN  IF action_args.error # "none"
        THEN [error |-> action_args.error, value |-> FALSE]
        ELSE [error |-> "none",
              value |->
                /\ ActionIsValid(state, action_args.action,
                                 action_args.arguments)
                /\ Apply(state, action_args.action, action_args.arguments,
                         derived_predicates_) = next_state]

\* Pddl::IsGoalSatisfied(str_state)
IsGoalSatisfied(str_state) ==
  LET parsed == ParseState(str_state)
  IN  IF parsed.error # "none" THEN [error |-> parsed.error, value |-> FALSE]
      ELSE [error |-> "none", value |-> goal_(parsed.state)]

\* Pddl::ListValidArguments(const State&, const Action&)
ListValidArguments(state, action) ==
  SelectSeq(ParameterGenerator(object_map_, action.parameters),
            LAMBDA args : ActionIsValid(state, action, args))

\* Mutant: the valid bindings are rendered by the action's name alone.
ListValidActionsNames(state) ==
  Flatten([i \in DOMAIN actions_ |->
             LET arguments == ListValidArguments(state, actions_[i])
             IN  [k \in DOMAIN arguments |-> <<actions_[i].name>>]])

\* Pddl::ListValidActions(const State&)
ListValidActions(state) ==
  Flatten([i \in DOMAIN actions_ |->
             LET arguments == ListValidArguments(state, actions_[i])
             IN  [k \in DOMAIN arguments |->
                    to_string(actions_[i].name, arguments[k])]])


(***************************************************************************)
(* Inputs of the calls.                                                    *)
(***************************************************************************)
Tuples(n) == [1..n -> ObjectNames]

AllProps ==
  UNION {{[name |-> name, args |-> args] : args \in Tuples(domain_predicates[name])}
           : name \in DOMAIN domain_predicates}

AllPropTexts == {to_string(prop.name, prop.args) : prop \in AllProps}

\* Known action, known objects, declared number of arguments (any types).
WellFormedCalls ==
  UNION {{to_string(actions_[i].name, args)
            : args \in Tuples(Len(actions_[i].parameters))}
           : i \in DOMAIN actions_}

\* Unknown action, unknown object, too many and too few arguments.
MalformedCalls ==
  { to_string("fly", <<"a">>), to_string("pick_up", <<"z">>),
    to_string("pick_up", <<"a", "t">>), to_string("swap", <<"a">>) }

Calls == WellFormedCalls \cup MalformedCalls

RECURSIVE SeqsUpTo(_, _)
SeqsUpTo(S, n) ==
  IF n = 0 THEN {<<>>}
  ELSE LET shorter == SeqsUpTo(S, n - 1)
       IN  shorter \cup {Append(p, c) : p \in shorter, c \in S}

Plans == SeqsUpTo(Calls, MaxPlanLen)

(***************************************************************************)
(* State machine: one caller of one facade, one synchronous call at a time;*)
(* the construction of the facade and the threads calling Pddl::IsValid of *)
(* a constructed facade have specifications of their own.                  *)
(***************************************************************************)
VARIABLES
  load,            \* Pddl::Pddl and ParsePddl: arguments, analysis, position
  VAL_Verbose,     \* the global VAL::Verbose
  VAL_report,      \* the global VAL::report (the stream it points to)
  threads,         \* per thread: its Pddl::IsValid call
  initial_state_,  \* the facade's initial State
  state,           \* the caller's State value
  ret,             \* the last query: its inputs and what it returned
  plan,            \* IsValidPlan: action_skeleton
  plan_i,          \* IsValidPlan: position of the loop in action_skeleton
  plan_state,      \* IsValidPlan: the local State
  plan_pc,         \* IsValidPlan: "idle", "loop", "returned" or "threw"
  plan_ret         \* IsValidPlan: the returned value

vars ==
  <<load, VAL_Verbose, VAL_report, threads,
    initial_state_, state, ret, plan, plan_i, plan_state, plan_pc, plan_ret>>

loadvars == <<load>>

threadvars == <<VAL_Verbose, VAL_report, threads>>

planvars == <<plan, plan_i, plan_state, plan_pc, plan_ret>>

NoRet ==
  [op |-> "none", call |-> <<>>, pre |-> {}, next |-> {}, error |-> "none",
   state |-> {}, str |-> {}, local |-> {}, value |-> FALSE, list |-> <<>>,
   is_changed |-> FALSE, predicates |-> <<>>, passes |-> 0]

\* The files a caller names, and what yyparse finds in each: a domain
\* definition, a problem definition, both or neither (a file that is missing
\* or not PDDL).
FileContents ==
  [domain_pddl  |-> {"domain"},
   problem_pddl |-> {"problem"},
   both_pddl    |-> {"domain", "problem"},
   broken_pddl  |-> {},
   missing_pddl |-> {}]

FileNames == DOMAIN FileContents

\* Before Pddl::Pddl is called: no analysis, no error.
NotLoaded ==
  [pc |-> "start", filename_domain |-> "", filename_problem |-> "",
   the_domain |-> "nullptr", the_problem |-> "nullptr",
   current_filename |-> "nullptr", error |-> <<>>]

\* After Pddl::Pddl("domain_pddl", "problem_pddl") has returned.
Loaded ==
  [NotLoaded EXCEPT !.pc = "built", !.filename_domain = "domain_pddl",
                    !.filename_problem = "problem_pddl",
                    !.the_domain = "domain_pddl",
                    !.the_problem = "problem_pddl",
                    !.current_filename = "problem_pddl"]

Threads == {1, 2}

\* The stream a thread passes to Pddl::IsValid is its own.
os(t) == <<"os", t>>

ThreadIdle ==
  [pc |-> "idle", verbose |-> FALSE, tc_Verbose |-> FALSE,
   tc_report |-> "nullptr"]

Init ==
  /\ load = Loaded
  /\ VAL_Verbose = FALSE
  /\ VAL_report = "nullptr"
  /\ threads = [t \in Threads |-> ThreadIdle]
  /\ initial_state_ = GetInitialState
  /\ state = GetInitialState
  /\ ret = NoRet
  /\ plan = <<>>
  /\ plan_i = 0
  /\ plan_state = {}
  /\ plan_pc = "idle"
  /\ plan_ret = FALSE

\* The caller builds a State from a set of proposition strings.
ParseStateCall ==
  /\ ret.op = "none" /\ plan_pc = "idle"
  /\ \E str_state \in SUBSET AllPropTexts :
    LET r == ParseState(str_state)
    IN  /\ state' = r.state
        /\ ret' = [NoRet EXCEPT !.op = "ParseState", !.error = r.error,
                                !.state = r.state]
        /\ UNCHANGED <<loadvars, threadvars, initial_state_, planvars>>

\* pddl.NextState(state, action_call): the State is passed by const
\* reference and the successor is returned by value.
NextStateCall ==
  /\ ret.op = "none" /\ plan_pc = "idle"
  /\ \E action_call \in Calls :
    LET r == NextState(state, action_call)
    IN  /\ ret' = [NoRet EXCEPT !.op = "NextState", !.call = action_call,
                                !.pre = state, !.error = r.error,
                                !.state = r.state]
        /\ UNCHANGED <<loadvars, threadvars, initial_state_, state, planvars>>

\* The caller moves on to the successor NextState returned.
Adopt ==
  /\ ret.op = "NextState" /\ ret.error = "none"
  /\ state' = ret.state
  /\ ret' = [NoRet EXCEPT !.op = "Adopt", !.call = ret.call, !.pre = ret.pre,
                          !.state = ret.state]
  /\ UNCHANGED <<loadvars, threadvars, initial_state_, planvars>>

\* pddl.NextState(Stringify(state), action_call), the string overload.
NextStateStrCall ==
  /\ ret.op = "none" /\ plan_pc = "idle"
  /\ \E action_call \in Calls :
    LET r == NextStateStr(Stringify(state), action_call)
    IN  /\ ret' = [NoRet EXCEPT !.op = "NextStateStr", !.call = action_call,
                                !.pre = state, !.error = r.error,
                                !.str = r.str, !.local = r.local,
                                !.is_changed = r.is_changed]
        /\ UNCHANGED <<loadvars, threadvars, initial_state_, state, planvars>>

IsValidActionCall ==
  /\ ret.op = "none" /\ plan_pc = "idle"
  /\ \E action_call \in Calls :
    LET r == IsValidAction(state, action_call)
    IN  /\ ret' = [NoRet EXCEPT !.op = "IsValidAction", !.call = action_call,
                                !.pre = state, !.error = r.error,
                                !.value = r.value]
        /\ UNCHANGED <<loadvars, threadvars, initial_state_, state, planvars>>

\* The states a caller compares against: the state itself and the successors
\* it obtained from NextState.
CandidateNextStates(s) ==
  {s, {}} \cup {NextState(s, c).state : c \in WellFormedCalls}

IsValidTupleCall ==
  /\ ret.op = "none" /\ plan_pc = "idle"
  /\ \E action_call \in Calls, next_state \in CandidateNextStates(state) :
    LET r == IsValidTuple(state, action_call, next_state)
    IN  /\ ret' = [NoRet EXCEPT !.op = "IsValidTuple", !.call = action_call,
                                !.pre = state, !.next = next_state,
                                !.error = r.error, !.value = r.value]
        /\ UNCHANGED <<loadvars, threadvars, initial_state_, state, planvars>>

IsGoalSatisfiedCall ==
  /\ ret.op = "none" /\ plan_pc = "idle"
  /\ LET r == IsGoalSatisfied(Stringify(state))
     IN  /\ ret' = [NoRet EXCEPT !.op = "IsGoalSatisfied", !.pre = state,
                                 !.error = r.error, !.value = r.value]
         /\ UNCHANGED <<loadvars, threadvars, initial_state_, state, planvars>>

ListValidActionsCall ==
  /\ ret.op = "none" /\ plan_pc = "idle"
  /\ ret' = [NoRet EXCEPT !.op = "ListValidActions", !.pre = state,
                          !.list = ListValidActions(state)]
  /\ UNCHANGED <<loadvars, threadvars, initial_state_, state, planvars>>

ListValidArgumentsCall ==
  /\ ret.op = "none" /\ plan_pc = "idle"
  /\ \E i \in DOMAIN actions_ :
       ret' = [NoRet EXCEPT !.op = "ListValidArguments",
                            !.call = <<actions_[i].name>>, !.pre = state,
                            !.list = ListValidArguments(state, actions_[i])]
  /\ UNCHANGED <<loadvars, threadvars, initial_state_, state, planvars>>

\* The rule lists the closure is run with: the facade's, and the lists of
\* the domains that declare only one of its rules.
PredicateLists ==
  {derived_predicates_} \cup {<<derived_predicates_[i]>> : i \in DOMAIN derived_predicates_}

\* The caller runs DerivedPredicate::Apply(predicates, &state) on its State
\* twice in succession: `state` is the State after the first run, `local`
\* after the second; `value` and `is_changed` are the two returned flags,
\* `passes` the number of passes of the first run.
DerivedApplyCall ==
  /\ ret.op = "none" /\ plan_pc = "idle"
  /\ \E predicates \in PredicateLists :
     LET first == DerivedPredicateApply(predicates, state)
         second == DerivedPredicateApply(predicates, first.state)
     IN  /\ state' = second.state
         /\ ret' = [NoRet EXCEPT !.op = "DerivedApply", !.pre = state,
                                 !.predicates = predicates,
                                 !.passes = DerivedLoop(predicates, state, 0).passes,
                                 !.state = first.state,
                                 !.value = first.is_changed,
                                 !.local = second.state,
                                 !.is_changed = second.is_changed]
  /\ UNCHANGED <<loadvars, threadvars, initial_state_, planvars>>

\* The caller has taken the result (or caught the exception) and goes on.
Resume ==
  /\ ret.op # "none"
  /\ ret' = NoRet
  /\ UNCHANGED <<loadvars, threadvars, initial_state_, state, planvars>>

(***************************************************************************)
(* Pddl::IsValidPlan(action_skeleton), one loop iteration per step.        *)
(***************************************************************************)

\* Entry: State state = initial_state_;  The call does not read the caller's
\* State, and the caller issues it while it still holds the initial one.
IsValidPlanCall ==
  /\ plan_pc = "idle" /\ ret.op = "none" /\ state = initial_state_
  /\ \E action_skeleton \in Plans : plan' = action_skeleton
  /\ plan_state' = initial_state_
  /\ plan_i' = 1
  /\ plan_pc' = "loop"
  /\ plan_ret' = FALSE
  /\ UNCHANGED <<loadvars, threadvars, initial_state_, state, ret>>

\* Action::Parse throws.
IsValidPlanThrow ==
  /\ plan_pc = "loop" /\ plan_i <= Len(plan)
  /\ ActionParse(plan[plan_i]).error # "none"
  /\ plan_pc' = "threw"
  /\ UNCHANGED <<loadvars, threadvars, initial_state_, state, ret, plan, plan_i, plan_state, plan_ret>>

\* Mutant: an action whose precondition is false is skipped and the loop
\* goes on with the next call.
IsValidPlanInvalidContinues ==
  /\ plan_pc = "loop" /\ plan_i <= Len(plan)
  /\ LET action_args == ActionParse(plan[plan_i])
     IN  /\ action_args.error = "none"
         /\ ~ActionIsValid(plan_state, action_args.action, action_args.arguments)
  /\ plan_i' = plan_i + 1
  /\ UNCHANGED <<loadvars, threadvars, initial_state_, state, ret, plan,
                 plan_state, plan_pc, plan_ret>>

\* if (!action.IsValid(state, arguments)) return false;
IsValidPlanInvalid ==
  /\ plan_pc = "loop" /\ plan_i <= Len(plan)
  /\ LET action_args == ActionParse(plan[plan_i])
     IN  /\ action_args.error = "none"
         /\ ~ActionIsValid(plan_state, action_args.action, action_args.arguments)
  /\ plan_pc' = "returned"
  /\ plan_ret' = FALSE
  /\ UNCHANGED <<loadvars, threadvars, initial_state_, state, ret, plan, plan_i, plan_state>>

\* Mutant: `state` is a reference to initial_state_, not a copy of it.
ApplyToReference(action, arguments, local, initial) ==
  LET applied == ApplyInPlace(action, arguments, derived_predicates_, local)
  IN  [local |-> applied.state, initial |-> applied.state]

\* The objects the in-place Apply of the loop writes: `state`, which was
\* declared as a copy (State state = initial_state_;), and not the member.
ApplyToCopy(action, arguments, local, initial) ==
  LET applied == ApplyInPlace(action, arguments, derived_predicates_, local)
  IN  [local |-> applied.state, initial |-> initial]

\* Apply(action, arguments, derived_predicates(), &state);
IsValidPlanApply ==
  /\ plan_pc = "loop" /\ plan_i <= Len(plan)
  /\ LET action_args == ActionParse(plan[plan_i])
         written == ApplyToCopy(action_args.action, action_args.arguments,
                                plan_state, initial_state_)
     IN  /\ action_args.error = "none"
         /\ ActionIsValid(plan_state, action_args.action, action_args.arguments)
         /\ plan_state' = written.local
         /\ initial_state_' = written.initial
  /\ plan_i' = plan_i + 1
  /\ UNCHANGED <<loadvars, threadvars, state, ret, plan, plan_pc, plan_ret>>

\* return goal_(state);
IsValidPlanReturn ==
  /\ plan_pc = "loop" /\ plan_i > Len(plan)
  /\ plan_pc' = "returned"
  /\ plan_ret' = goal_(plan_state)
  /\ UNCHANGED <<loadvars, threadvars, initial_state_, state, ret, plan, plan_i, plan_state>>

\* The handler is left: the caller gets the value or the exception, the
\* locals are gone.
IsValidPlanDone ==
  /\ plan_pc \in {"returned", "threw"}
  /\ ret' = [NoRet EXCEPT !.op = "IsValidPlan",
                          !.error = IF plan_pc = "threw"
                                      THEN ActionParse(plan[plan_i]).error
                                      ELSE "none",
                          !.value = plan_ret]
  /\ plan_pc' = "idle"
  /\ plan' = <<>>
  /\ plan_i' = 0
  /\ plan_state' = {}
  /\ plan_ret' = FALSE
  /\ UNCHANGED <<loadvars, threadvars, initial_state_, state>>

NextPlan ==
  \/ IsValidPlanCall
  \/ IsValidPlanThrow
  \/ IsValidPlanInvalid
  \/ IsValidPlanApply
  \/ IsValidPlanReturn
  \/ IsValidPlanDone
  \/ Resume

SpecPlan == Init /\ [][NextPlan]_vars

Next ==
  \/ ParseStateCall
  \/ NextStateCall
  \/ Adopt
  \/ NextStateStrCall
  \/ IsValidActionCall
  \/ IsValidTupleCall
  \/ IsGoalSatisfiedCall
  \/ ListValidArgumentsCall
  \/ ListValidActionsCall
  \/ DerivedApplyCall
  \/ Resume
  \/ IsValidPlanCall
  \/ IsValidPlanThrow
  \/ IsValidPlanInvalid
  \/ IsValidPlanApply
  \/ IsValidPlanReturn
  \/ IsValidPlanDone

Spec == Init /\ [][Next]_vars


(***************************************************************************)
(* Construction: Pddl::Pddl(domain_pddl, problem_pddl) and ParsePddl, one  *)
(* step per statement.  analysis->the_domain and analysis->the_problem are *)
(* "nullptr" or the name of the file they were parsed from.                *)
(***************************************************************************)
InitLoad ==
  /\ load = NotLoaded
  /\ VAL_Verbose = FALSE
  /\ VAL_report = "nullptr"
  /\ threads = [t \in Threads |-> ThreadIdle]
  /\ initial_state_ = {}
  /\ state = {}
  /\ ret = NoRet
  /\ plan = <<>>
  /\ plan_i = 0
  /\ plan_state = {}
  /\ plan_pc = "idle"
  /\ plan_ret = FALSE

\* yyparse() on a file: a definition found replaces the analysis' pointer,
\* a definition not found leaves it as it was.
yyparse(analysis, filename) ==
  [analysis EXCEPT
     !.the_domain = IF "domain" \in FileContents[filename]
                      THEN filename ELSE @,
     !.the_problem = IF "problem" \in FileContents[filename]
                       THEN filename ELSE @]

\* Pddl::Pddl is called with two file names; ParsePddl makes the analysis.
PddlCall ==
  /\ load.pc = "start"
  /\ \E filename_domain \in FileNames, filename_problem \in FileNames :
       load' = [load EXCEPT !.pc = "parse_domain",
                            !.filename_domain = filename_domain,
                            !.filename_problem = filename_problem]
  /\ UNCHANGED <<threadvars, initial_state_, state, ret, planvars>>

\* current_filename = filename_domain.c_str(); ... yyparse();
ParseDomain ==
  /\ load.pc = "parse_domain"
  /\ load' = [yyparse(load, load.filename_domain) EXCEPT
                !.pc = "check_domain",
                !.current_filename = load.filename_domain]
  /\ UNCHANGED <<threadvars, initial_state_, state, ret, planvars>>

\* if (analysis->the_domain == nullptr) throw "Unable to parse domain ..."
CheckDomain ==
  /\ load.pc = "check_domain"
  /\ load' = IF load.the_domain = "nullptr"
               THEN [load EXCEPT !.pc = "threw",
                                 !.error = <<"domain", load.filename_domain>>]
               ELSE [load EXCEPT !.pc = "parse_problem"]
  /\ UNCHANGED <<threadvars, initial_state_, state, ret, planvars>>

\* current_filename = filename_problem.c_str(); ... yyparse();
ParseProblem ==
  /\ load.pc = "parse_problem"
  /\ load' = [yyparse(load, load.filename_problem) EXCEPT
                !.pc = "check_problem",
                !.current_filename = load.filename_problem]
  /\ UNCHANGED <<threadvars, initial_state_, state, ret, planvars>>

\* if (analysis->the_domain == nullptr) throw "Unable to parse problem ..."
\* else return analysis;
CheckProblem ==
  /\ load.pc = "check_problem"
  /\ load' = IF load.the_domain = "nullptr"
               THEN [load EXCEPT !.pc = "threw",
                                 !.error = <<"problem", load.filename_problem>>]
               ELSE [load EXCEPT !.pc = "construct"]
  /\ UNCHANGED <<threadvars, initial_state_, state, ret, planvars>>

\* The member initialisers: domain_(*analysis_->the_domain),
\* problem_(*analysis_->the_problem), ..., initial_state_(GetInitialState).
\* With the_problem == nullptr the dereference is undefined: the process
\* crashes, or a facade is built whose problem data is whatever is read.
Construct ==
  /\ load.pc = "construct"
  /\ IF load.the_problem # "nullptr"
       THEN /\ load' = [load EXCEPT !.pc = "built"]
            /\ initial_state_' = GetInitialState
       ELSE \/ /\ load' = [load EXCEPT !.pc = "crashed"]
               /\ UNCHANGED initial_state_
            \/ /\ load' = [load EXCEPT !.pc = "built"]
               /\ initial_state_' \in SUBSET AllProps
  /\ state' = initial_state_'
  /\ UNCHANGED <<threadvars, ret, planvars>>

NextLoad ==
  \/ PddlCall
  \/ ParseDomain
  \/ CheckDomain
  \/ ParseProblem
  \/ CheckProblem
  \/ Construct

SpecLoad == InitLoad /\ [][NextLoad]_vars

(***************************************************************************)
(* Threads calling Pddl::IsValid(verbose, os) of one constructed facade,   *)
(* one step per statement; the steps of different threads interleave.  The *)
(* two globals are plain (not atomic, not guarded by a lock).              *)
(***************************************************************************)

\* Thread t calls pddl.IsValid(verbose, os(t)).
IsValidCall(t) ==
  /\ threads[t].pc = "idle"
  /\ \E verbose \in BOOLEAN :
       threads' = [threads EXCEPT ![t] = [ThreadIdle EXCEPT
                                           !.pc = "set_Verbose",
                                           !.verbose = verbose]]
  /\ UNCHANGED <<loadvars, VAL_Verbose, VAL_report,
                 initial_state_, state, ret, planvars>>

\* VAL::Verbose = verbose;
SetVerbose(t) ==
  /\ threads[t].pc = "set_Verbose"
  /\ VAL_Verbose' = threads[t].verbose
  /\ threads' = [threads EXCEPT ![t].pc = "set_report"]
  /\ UNCHANGED <<loadvars, VAL_report, initial_state_, state, ret, planvars>>

\* VAL::report = &os;
SetReport(t) ==
  /\ threads[t].pc = "set_report"
  /\ VAL_report' = os(t)
  /\ threads' = [threads EXCEPT ![t].pc = "typecheck"]
  /\ UNCHANGED <<loadvars, VAL_Verbose, initial_state_, state, ret, planvars>>

\* tc.typecheckDomain(); tc.typecheckProblem();  The type checker takes its
\* verbosity and its report stream from the two globals.
TypeCheck(t) ==
  /\ threads[t].pc = "typecheck"
  /\ threads' = [threads EXCEPT ![t].pc = "return",
                                ![t].tc_Verbose = VAL_Verbose,
                                ![t].tc_report = VAL_report]
  /\ UNCHANGED <<loadvars, VAL_Verbose, VAL_report,
                 initial_state_, state, ret, planvars>>

\* return is_domain_valid && is_problem_valid;
IsValidReturn(t) ==
  /\ threads[t].pc = "return"
  /\ threads' = [threads EXCEPT ![t] = ThreadIdle]
  /\ UNCHANGED <<loadvars, VAL_Verbose, VAL_report,
                 initial_state_, state, ret, planvars>>

NextThreads ==
  \E t \in Threads :
    \/ IsValidCall(t)
    \/ SetVerbose(t)
    \/ SetReport(t)
    \/ TypeCheck(t)
    \/ IsValidReturn(t)

SpecThreads == Init /\ [][NextThreads]_vars

(***************************************************************************)
(* Properties.                                                             *)
(***************************************************************************)

\* The fold of the plan-equivalence property: from state s, check IsValid of
\* the i-th call, apply its effects, run the closure, go on with the next.
RECURSIVE PlanFold(_, _, _)
PlanFold(P, i, s) ==
  IF i > Len(P) THEN [valid |-> TRUE, state |-> s]
  ELSE LET action_args == ActionParse(P[i])
       IN  IF ~ActionIsValid(s, action_args.action, action_args.arguments)
             THEN [valid |-> FALSE, state |-> s]
             ELSE PlanFold(P, i + 1,
                    DerivedPredicateApply(derived_predicates_,
                      ActionApply(s, action_args.action,
                                  action_args.arguments)).state)

WellFormedPlan(P) == \A i \in DOMAIN P : P[i] \in WellFormedCalls

\* C1: for a plan of well-formed calls, IsValidPlan returns true iff the fold
\* from the initial state meets no action with a false precondition and the
\* state after the last action satisfies the goal.
C1_PlanEquivalence ==
  (plan_pc = "returned" /\ WellFormedPlan(plan)) =>
    LET fold == PlanFold(plan, 1, initial_state_)
    IN  plan_ret <=> (fold.valid /\ goal_(fold.state))

\* A two-action plan was accepted.
C1_Witness ==
  plan_pc = "returned" /\ WellFormedPlan(plan) /\ Len(plan) = 2 /\ plan_ret


\* The action and the arguments of the last call, when it parsed.
RetAction == ActionParse(ret.call).action

RetArguments == ActionParse(ret.call).arguments

\* The effects of the last call applied to its input state, then the closure.
RetEffectsThenClosure ==
  DerivedPredicateApply(derived_predicates_,
                        ActionApply(ret.pre, RetAction, RetArguments)).state

\* C2: NextState does not look at the precondition: whether or not it holds,
\* the returned state is the input state with the action's effects applied
\* and the derived predicates closed.
C2_NextStateUnconditional ==
  (ret.op = "NextState" /\ ret.error = "none") =>
    ret.state = RetEffectsThenClosure

\* NextState changed the state by an action whose precondition was false.
C2_Witness ==
  /\ ret.op = "NextState" /\ ret.error = "none"
  /\ ~ActionIsValid(ret.pre, RetAction, RetArguments)
  /\ ret.state # ret.pre

\* C3: a well-formed action call is listed by ListValidActions(S) iff
\* IsValidAction(S, call) is true.
C3_EnumerationIffValid ==
  ret.op = "ListValidActions" =>
    \A t \in WellFormedCalls :
      (t \in Range(ret.list)) <=> IsValidAction(ret.pre, t).value

\* C4: IsValidTuple is true iff the precondition holds in state and the
\* effects followed by the closure give exactly next_state.
C4_IsValidTuple ==
  (ret.op = "IsValidTuple" /\ ret.error = "none") =>
    (ret.value <=> (/\ ActionIsValid(ret.pre, RetAction, RetArguments)
                    /\ RetEffectsThenClosure = ret.next))

\* IsValidTuple accepted a transition to a different state.
C4_Witness ==
  /\ ret.op = "IsValidTuple" /\ ret.error = "none"
  /\ ret.value /\ ret.next # ret.pre

\* No derived predicate has a binding whose body is true and whose head is
\* missing.
IsFixpoint(s) ==
  \A i \in DOMAIN derived_predicates_ :
    \A args \in Range(ParameterGenerator(object_map_,
                                         derived_predicates_[i].parameters)) :
      Eval(derived_predicates_[i].body, s,
           Bind(derived_predicates_[i].parameters, args))
        => [name |-> derived_predicates_[i].name, args |-> args] \in s

\* C5: the state returned by NextState, and the local state of IsValidPlan
\* after each applied action, is a fixpoint of the derived predicates.
C5_ClosedAfterTransition ==
  /\ (ret.op = "NextState" /\ ret.error = "none") => IsFixpoint(ret.state)
  /\ (ret.op = "NextStateStr" /\ ret.error = "none") => IsFixpoint(ret.local)
  /\ (plan_pc # "idle" /\ plan_i > 1) => IsFixpoint(plan_state)

\* NextState returned a state holding any_busy(), which is derived from the
\* derived busy(t), and neither was in the input state.
C5_Witness ==
  /\ ret.op = "NextState" /\ ret.error = "none"
  /\ [name |-> "any_busy", args |-> <<>>] \in ret.state
  /\ [name |-> "busy", args |-> <<"t">>] \in ret.state
  /\ \A prop \in ret.pre : prop.name \notin {"busy", "any_busy"}

\* C6: a second run of the closure directly after the first changes nothing
\* and says so; so does a run on the state an action application returned.
C6_ClosureIdempotent ==
  /\ ret.op = "DerivedApply" => (ret.local = ret.state /\ ~ret.is_changed)
  /\ (ret.op = "NextState" /\ ret.error = "none") =>
       DerivedPredicateApply(derived_predicates_, ret.state) =
         [state |-> ret.state, is_changed |-> FALSE]

\* The first run added propositions, the second ran on its result.
C6_Witness ==
  /\ ret.op = "DerivedApply" /\ ret.value
  /\ Cardinality(ret.state) >= Cardinality(ret.pre) + 2

\* C7: the closure only adds: what is in the state before it runs is in the
\* state after it, also for the closure run inside an action application.
C7_ClosureMonotonic ==
  /\ ret.op = "DerivedApply" => (ret.pre \subseteq ret.state)
  /\ (ret.op = "NextState" /\ ret.error = "none") =>
       ActionApply(ret.pre, RetAction, RetArguments) \subseteq ret.state

\* The closure ran on a non-empty state and added to it.
C7_Witness ==
  ret.op = "DerivedApply" /\ ret.pre # {} /\ ret.state # ret.pre

\* C8: parsing the strings of a state gives the state back.
C8_StateTextRoundTrip ==
  ParseState(Stringify(state)) = [error |-> "none", state |-> state]

\* A state reached by applying an action, holding propositions with one
\* argument and with none.
C8_Witness ==
  /\ ret.op = "Adopt" /\ state = ret.state
  /\ [name |-> "any_busy", args |-> <<>>] \in state
  /\ \E prop \in state : Len(prop.args) = 1


\* The in-place Apply of the string overload left the state the pure Apply
\* returns.
InPlaceAgreesWithPure ==
  (ret.op = "NextStateStr" /\ ret.error = "none") =>
    ret.local = Apply(ret.pre, RetAction, RetArguments, derived_predicates_)

\* C9 as stated: the two forms of Apply agree, and the flag of the in-place
\* form is true exactly when the resulting state differs from the input.
C9_FlagIffStateDiffers ==
  /\ InPlaceAgreesWithPure
  /\ (ret.op = "NextStateStr" /\ ret.error = "none") =>
       (ret.is_changed <=> ret.local # ret.pre)

\* C9, amended: the two forms of Apply agree, and the flag of the in-place
\* form is true whenever the resulting state differs from the input state.
C9_FlagWhenStateDiffers ==
  /\ InPlaceAgreesWithPure
  /\ (ret.op = "NextStateStr" /\ ret.error = "none") =>
       (ret.local # ret.pre => ret.is_changed)

\* The in-place form changed the state by the effects alone (the closure
\* added nothing), and the handler returned its strings.
C9_Witness ==
  /\ ret.op = "NextStateStr" /\ ret.error = "none"
  /\ ret.local # ret.pre /\ ret.is_changed
  /\ ret.local = ActionApply(ret.pre, RetAction, RetArguments)
  /\ ret.str = Stringify(ret.local)

TextOps == {"NextState", "NextStateStr", "IsValidAction", "IsValidTuple"}

\* A query with a malformed call failed and left the caller's state alone;
\* the initial state is the one built at construction.
MalformedCallFails ==
  /\ (ret.op \in TextOps /\ ret.call \in MalformedCalls) =>
       (ret.error # "none" /\ state = ret.pre)
  /\ (ret.op \in TextOps /\ ret.call \in WellFormedCalls) => ret.error = "none"
  /\ initial_state_ = GetInitialState
  /\ plan_pc # "idle" => state = GetInitialState

\* C10 as stated: a malformed call makes NextState, IsValidAction,
\* IsValidTuple and IsValidPlan fail with an error, and no state is modified.
C10_MalformedAlwaysFails ==
  /\ MalformedCallFails
  /\ plan_pc = "returned" => WellFormedPlan(plan)

\* C10, amended: IsValidPlan fails with the error when it reaches the
\* malformed call, that is when no earlier call has a false precondition; it
\* never returns a value after having parsed a malformed call.
C10_MalformedFailsWhenReached ==
  /\ MalformedCallFails
  /\ plan_pc = "returned" =>
       \A i \in DOMAIN plan : i <= plan_i => plan[i] \in WellFormedCalls
  /\ plan_pc = "threw" => plan[plan_i] \in MalformedCalls
  /\ (plan_pc = "loop" /\ plan_i <= Len(plan)
        /\ plan[plan_i] \in MalformedCalls) => ENABLED IsValidPlanThrow

\* IsValidPlan threw at its second call, after the first had been applied to
\* the local state.
C10_Witness ==
  /\ plan_pc = "threw" /\ plan_i = 2
  /\ plan_state # initial_state_

(***************************************************************************)
(* The ground propositions an action application adds and deletes, read    *)
(* off the effects declaratively: an effect counts when every condition    *)
(* around it holds in the state `pre`.                                     *)
(***************************************************************************)
RECURSIVE Delta(_, _, _)
Delta(effects, bind, pre) ==
  LET foralls ==
        UNION {{Delta(effects.forall[i].effects,
                      Bind(effects.forall[i].vars, tup) @@ bind, pre)
                  : tup \in Range(ParameterGenerator(object_map_,
                                                     effects.forall[i].vars))}
                 : i \in DOMAIN effects.forall}
      conds ==
        {Delta(effects.cond[i].effects, bind, pre)
           : i \in {k \in DOMAIN effects.cond
                      : Eval(effects.cond[k].cond, pre, bind)}}
      nested == foralls \cup conds
  IN  [add |-> {Ground(effects.add[i], bind) : i \in DOMAIN effects.add}
                 \cup UNION {d.add : d \in nested},
       del |-> {Ground(effects.del[i], bind) : i \in DOMAIN effects.del}
                 \cup UNION {d.del : d \in nested}]

\* The adds and deletes of the last call on its input state.
RetDelta ==
  Delta(RetAction.effects, Bind(RetAction.parameters, RetArguments), ret.pre)

\* The heads of the derived predicates.
DerivedHeads ==
  {prop \in AllProps :
     \E i \in DOMAIN derived_predicates_ : derived_predicates_[i].name = prop.name}

\* The last call was NextState with an action whose precondition is false.
RetPreconditionFalse ==
  /\ ret.op = "NextState" /\ ret.call \in WellFormedCalls
  /\ ~ActionIsValid(ret.pre, RetAction, RetArguments)

\* C11 (as stated): NextState with a false precondition raises no error and
\* returns the input state untouched by the action's effects (only closed).
C11_UnchangedWhenPreconditionFalse ==
  RetPreconditionFalse =>
    /\ ret.error = "none"
    /\ ret.state = DerivedPredicateApply(derived_predicates_, ret.pre).state

\* C11 (amended): NextState with a false precondition raises no error and
\* applies the effects all the same: what the action adds and does not
\* delete is in the returned state, what it deletes and does not add is
\* absent unless the closure derives it.
C11_AppliedWhenPreconditionFalse ==
  RetPreconditionFalse =>
    /\ ret.error = "none"
    /\ (RetDelta.add \ RetDelta.del) \subseteq ret.state
    /\ ((RetDelta.del \ RetDelta.add) \ DerivedHeads) \cap ret.state = {}

\* pick_up(a) while a is not on the table: the added held(a) is in the
\* returned state.
C11_Witness ==
  /\ RetPreconditionFalse
  /\ ret.call = to_string("pick_up", <<"a">>)
  /\ [name |-> "on_table", args |-> <<"t">>] \in ret.pre
  /\ [name |-> "held", args |-> <<"a">>] \notin ret.pre
  /\ [name |-> "held", args |-> <<"a">>] \in ret.state

\* C12: ListValidActions(S) holds no text twice.
C12_NoDuplicateActions ==
  ret.op = "ListValidActions" =>
    \A i, j \in DOMAIN ret.list : ret.list[i] = ret.list[j] => i = j

\* The list holds put_down(a), whose parameter allows the types block and
\* object that a both satisfies, and swap(a, a), which binds a to both
\* parameters, next to swap(a, t).
C12_Witness ==
  /\ ret.op = "ListValidActions"
  /\ to_string("put_down", <<"a">>) \in Range(ret.list)
  /\ to_string("swap", <<"a", "a">>) \in Range(ret.list)
  /\ to_string("swap", <<"a", "t">>) \in Range(ret.list)

\* C13: a failed load throws an error naming the file that failed, the
\* domain file when no domain was parsed and the problem file when no
\* problem was parsed, and the member initialisers of Pddl::Pddl run only
\* with both a domain and a problem.
C13_LoadFailureNamesFile ==
  /\ load.pc = "threw" =>
       \/ load.error = <<"domain", load.filename_domain>>
            /\ load.the_domain = "nullptr"
       \/ load.error = <<"problem", load.filename_problem>>
            /\ load.the_problem = "nullptr"
  /\ load.pc \in {"construct", "built", "crashed"} =>
       (load.the_domain # "nullptr" /\ load.the_problem # "nullptr")

\* C14: the type checker run by a thread's Pddl::IsValid(verbose, os) works
\* with the verbosity and the report stream that thread passed.
C14_IsValidThreadLocal ==
  \A t \in Threads :
    threads[t].pc = "return" =>
      (threads[t].tc_Verbose = threads[t].verbose
         /\ threads[t].tc_report = os(t))

\* C15: the conditions of an action's conditional effects are all evaluated
\* in the input state, so the result is the input state with the collected
\* adds and deletes merged (then closed), whatever the order of the effects.
C15_ConditionsReadInputState ==
  (ret.op = "NextState" /\ ret.error = "none") =>
    ret.state =
      DerivedPredicateApply(derived_predicates_,
                            (ret.pre \cup RetDelta.add) \ RetDelta.del).state

\* toggle(t) while t is held: the first conditional effect fires and deletes
\* held(t); the second, whose condition (not (held t)) has become true in
\* the working copy, does not fire, so t is put on the table and stays there.
C15_Witness ==
  /\ ret.op = "NextState" /\ ret.call = to_string("toggle", <<"t">>)
  /\ [name |-> "held", args |-> <<"t">>] \in ret.pre
  /\ [name |-> "on_table", args |-> <<"t">>] \notin ret.pre
  /\ [name |-> "held", args |-> <<"t">>] \notin ret.state
  /\ [name |-> "on_table", args |-> <<"t">>] \in ret.state

\* The number of possible head groundings of a list of derived predicates.
RECURSIVE HeadGroundings(_)
HeadGroundings(predicates) ==
  IF predicates = <<>> THEN 0
  ELSE Len(ParameterGenerator(object_map_, Head(predicates).parameters))
         + HeadGroundings(Tail(predicates))

\* The closure stopped on a state that a further pass leaves as it is.
ClosureStable ==
  ret.op = "DerivedApply" =>
    DerivedPass(ret.predicates, 1, 1, ret.state) = ret.state

C17_VacuousQuantifiers ==
  /\ "ghost" \notin DOMAIN object_map_
  /\ (ret.op = "IsGoalSatisfied" /\ ret.error = "none") =>
       (ret.value <=> /\ [name |-> "any_busy", args |-> <<>>] \in ret.pre
                      /\ [name |-> "held", args |-> <<"a">>] \notin ret.pre)
  /\ \A x \in ObjectNames :
       (ret.op = "IsValidAction" /\ ret.call = to_string("pick_up", <<x>>)) =>
         (ret.value <=> [name |-> "on_table", args |-> <<x>>] \in ret.pre)

\* The goal was satisfied in a state where nothing is held, and so is not
\* satisfied by any binding of the forall's body.
C17_Witness ==
  /\ ret.op = "IsGoalSatisfied" /\ ret.value
  /\ \A prop \in ret.pre : prop.name # "held"

\* The ground propositions named by an action's add and delete effects, at
\* any depth and whatever the conditions around them.
RECURSIVE Named(_, _)
Named(effects, bind) ==
  LET foralls ==
        UNION {{Named(effects.forall[i].effects,
                      Bind(effects.forall[i].vars, tup) @@ bind)
                  : tup \in Range(ParameterGenerator(object_map_,
                                                     effects.forall[i].vars))}
                 : i \in DOMAIN effects.forall}
      conds == {Named(effects.cond[i].effects, bind) : i \in DOMAIN effects.cond}
      nested == foralls \cup conds
  IN  [add |-> {Ground(effects.add[i], bind) : i \in DOMAIN effects.add}
                 \cup UNION {n.add : n \in nested},
       del |-> {Ground(effects.del[i], bind) : i \in DOMAIN effects.del}
                 \cup UNION {n.del : n \in nested}]

RetNamed == Named(RetAction.effects, Bind(RetAction.parameters, RetArguments))

\* C18: what NextState's result has and its input has not is an add effect
\* of the action or a derived head; what the input has and the result has
\* not is a delete effect of the action.
C18_Frame ==
  (ret.op = "NextState" /\ ret.error = "none") =>
    /\ (ret.state \ ret.pre) \subseteq (RetNamed.add \cup DerivedHeads)
    /\ (ret.pre \ ret.state) \subseteq RetNamed.del

\* pick_up(a) on {on_table(a), on_table(t)}: on_table(a) is deleted, held(a)
\* is added, busy(a) and any_busy() are derived, on_table(t) stays.
C18_Witness ==
  /\ ret.op = "NextState" /\ ret.call = to_string("pick_up", <<"a">>)
  /\ ret.pre = {[name |-> "on_table", args |-> <<"a">>],
                [name |-> "on_table", args |-> <<"t">>]}
  /\ ret.state = {[name |-> "on_table", args |-> <<"t">>],
                  [name |-> "held", args |-> <<"a">>],
                  [name |-> "busy", args |-> <<"a">>],
                  [name |-> "any_busy", args |-> <<>>]}

\* What IsValidPlan does with P from the state s on: the value it returns,
\* or that it throws.
RECURSIVE PlanOutcome(_, _, _)
PlanOutcome(P, i, s) ==
  IF i > Len(P) THEN [pc |-> "returned", value |-> goal_(s)]
  ELSE LET action_args == ActionParse(P[i])
       IN  IF action_args.error # "none"
             THEN [pc |-> "threw", value |-> FALSE]
           ELSE IF ~ActionIsValid(s, action_args.action, action_args.arguments)
             THEN [pc |-> "returned", value |-> FALSE]
           ELSE PlanOutcome(P, i + 1,
                            Apply(s, action_args.action, action_args.arguments,
                                  derived_predicates_))

StateOverloads ==
  {"NextState", "IsValidAction", "IsValidTuple", "ListValidArguments",
   "ListValidActions"}

\* C19: a State overload leaves the caller's State as it was given; the
\* facade's initial state is always the one built at construction; and what
\* IsValidPlan(P) returns or throws is determined by P alone.
C19_QueriesReadOnly ==
  /\ ret.op \in StateOverloads => state = ret.pre
  /\ initial_state_ = GetInitialState
  /\ plan_pc \in {"returned", "threw"} =>
       [pc |-> plan_pc, value |-> plan_ret] =
         PlanOutcome(plan, 1, GetInitialState)

\* IsValidPlan has applied two actions to its local State and accepted the
\* plan; the local State differs from the initial state.
C19_Witness ==
  /\ plan_pc = "returned" /\ plan_ret /\ plan_i = 3
  /\ plan_state # initial_state_

\* The problem's initial facts as written: on_table(a) and held(t).
RawInitialState ==
  {[name |-> "on_table", args |-> <<"a">>], [name |-> "held", args |-> <<"t">>]}

\* C20: the initial state is the problem's facts without their derived
\* consequences (busy(t), any_busy()); IsValidPlan starts its loop on it, so
\* it evaluates the first action's precondition, and the goal of the empty
\* plan, in that state, and holds a closed state from the second step on.
C20_InitialStateNotClosed ==
  /\ initial_state_ = RawInitialState
  /\ ~IsFixpoint(initial_state_)
  /\ (plan_pc # "idle" /\ plan_i = 1) => plan_state = RawInitialState
  /\ (plan_pc = "returned" /\ plan = <<>>) =>
       plan_ret = goal_(RawInitialState)
  /\ (plan_pc = "returned" /\ plan_i = 1 /\ plan # <<>>) =>
       ~IsValidAction(RawInitialState, plan[1]).value
  /\ (plan_pc # "idle" /\ plan_i = 2) =>
       ActionIsValid(RawInitialState, ActionParse(plan[1]).action,
                     ActionParse(plan[1]).arguments)

\* The plan <<forget(t)>> was rejected at its first action: forget needs
\* busy(t), which follows from the initial held(t) but is not in the initial
\* state; after a first toggle(a) the same action is accepted.
C20_Witness ==
  /\ plan_pc = "returned" /\ plan_i = 1 /\ ~plan_ret
  /\ plan = <<to_string("forget", <<"t">>)>>
  /\ IsValidAction(NextState(initial_state_,
                             to_string("toggle", <<"a">>)).state,
                   to_string("forget", <<"t">>)).value

\* The calls of the plan before position plan_i: the ones the loop is done
\* with.
PlanDone == SubSeq(plan, 1, (IF plan_i <= Len(plan) THEN plan_i ELSE Len(plan) + 1) - 1)

\* The call the loop is at is well-formed and its precondition is false in
\* the local State.
PlanAtInvalid ==
  /\ plan_i <= Len(plan) /\ plan[plan_i] \in WellFormedCalls
  /\ ~ActionIsValid(plan_state, ActionParse(plan[plan_i]).action,
                    ActionParse(plan[plan_i]).arguments)

\* C21: IsValidPlan takes the calls in order.  The calls it is done with
\* were all well-formed with a true precondition, and the local State is
\* the initial state with exactly these applied.  At a call with a false
\* precondition it can only return false, at that position, whatever the
\* later calls are; at a malformed call it can only throw; it returns the
\* goal's value only after the last call.
C21_StopsAtFirstInvalid ==
  plan_pc # "idle" =>
    /\ WellFormedPlan(PlanDone)
    /\ PlanFold(PlanDone, 1, initial_state_) =
         [valid |-> TRUE, state |-> plan_state]
    /\ (plan_pc = "returned" /\ plan_i <= Len(plan)) =>
         (PlanAtInvalid /\ ~plan_ret)
    /\ (plan_pc = "returned" /\ plan_i > Len(plan)) =>
         plan_ret = goal_(plan_state)
    /\ plan_pc = "threw" => plan[plan_i] \in MalformedCalls
    /\ (plan_pc = "loop" /\ PlanAtInvalid) =>
         (ENABLED IsValidPlanInvalid /\ ~ENABLED IsValidPlanThrow
            /\ ~ENABLED IsValidPlanApply)
    /\ (plan_pc = "loop" /\ plan_i <= Len(plan)
          /\ plan[plan_i] \in MalformedCalls) =>
         (ENABLED IsValidPlanThrow /\ ~ENABLED IsValidPlanInvalid
            /\ ~ENABLED IsValidPlanApply)

\* IsValidPlan returned false at its first call, pick_up(t) with t not on
\* the table, and the malformed second call fly(a) was never parsed.
C21_Witness ==
  /\ plan_pc = "returned" /\ ~plan_ret /\ plan_i = 1
  /\ plan = <<to_string("pick_up", <<"t">>), to_string("fly", <<"a">>)>>
  /\ plan_state = initial_state_

====
